---- MODULE Spec2Model ----
(***************************************************************************)
(* A model of src/bot.py: the keep-alive thread that runs the fetch cycle  *)
(* (fetch_articles_for_window), the send loop (schedule_send_loop) that    *)
(* starts one thread per publish cycle (send_pending_articles), the shared *)
(* state seen_urls / pending_articles / lock, and translate_with_fallback. *)
(*                                                                         *)
(* The specifications share the actions:                                   *)
(*   Spec          threads and data; sleeps end at any moment (no clock)   *)
(*   SpecEntries   the keep-alive thread alone, its cycles entry by entry, *)
(*                 with the entry's fields and its fate remembered         *)
(*   SpecPublish   Spec with the publish cycles item by item, the items    *)
(*                 that failed remembered                                  *)
(*   SpecLive      SpecPublish with the fairness thread scheduling gives   *)
(*   SpecTimed     the two loops against the wall clock (minute of hour),  *)
(*                 in an environment whose feeds deliver no entries        *)
(*   SpecFair      SpecTimed with the fairness thread scheduling gives     *)
(*   SpecTranslate translate_with_fallback applied to drawn inputs         *)
(***************************************************************************)
EXTENDS Integers, Sequences, FiniteSets, Bags, TLC

\* ---------------------------------------------------------------- bounds
NumSources == 2
NumUrls == 2
MaxEntries == 2
MaxSenders == 2
MaxLen == 2
MaxWords == 2

\* ------------------------------------------------------ program constants
WindowMinutes == 40
KeepAliveMinutes == 14
HalfHour == 30
MinutesPerHour == 60

Urls == 1..NumUrls
Minutes == 0..(MinutesPerHour - 1)

\* who holds the lock
Free == "free"
FetchThread == "fetch"
SenderThread == "sender"

VARIABLES
  seen_urls,         \* set of canonical URLs
  pending_articles,  \* sequence of staged items
  lock,              \* Free, or the thread that holds it
  kpc,               \* position of the keep-alive thread
  src,               \* index into SOURCES of the source being processed
  left,              \* entries of the current feed not yet scanned
  url,               \* canonical URL of the entry being processed
  new_articles,      \* items staged so far by the running fetch cycle
  seen_start,        \* history: seen_urls when the latest fetch cycle started (or returned)
  senders,           \* the bag of running publish threads
  sent_urls,         \* history: the URLs bot.send_message was called for
  sent_twice,        \* history: bot.send_message was called twice for some URL
  now,               \* wall clock, minute of the hour
  pc_s,              \* position of the send loop
  next_send,         \* minute the send loop sleeps until
  sleep_left,        \* minutes the keep-alive sleep still lasts
  after_hang,        \* history: a publish cycle was started after the fetch hung
  targ,              \* translate_with_fallback harness: the inputs
  tres,              \* translate_with_fallback harness: the result
  entry,             \* history: the feed entry last processed and what became of it
  first_link,        \* history: the link, as the feed gave it, of the first entry staged
  skipped,           \* history: the URL last skipped for an empty translation, whether an entry
                     \* with that URL was staged (in the skip's cycle, or since), and whether a
                     \* cycle returned between the skip and that staging
  sent_untranslated, \* history: bot.send_message was called for an item with an empty translation
  failed             \* history: URLs of drained items not translated or not published

fvars == <<kpc, src, left, url, new_articles, seen_start>>
svars == <<senders>>
tvars == <<now, pc_s, next_send, sleep_left, after_hang>>
xvars == <<targ, tres>>
evars == <<entry, first_link, skipped>>
pvars == <<sent_untranslated, failed>>
hvars == <<entry, first_link, skipped, sent_untranslated, failed>>
vars == <<seen_urls, pending_articles, lock, kpc, src, left, url, new_articles,
          seen_start, senders, sent_urls, sent_twice, now, pc_s, next_send, sleep_left,
          after_hang, targ, tres, entry, first_link, skipped, sent_untranslated, failed>>

\* ------------------------------------------------------------------ text
Chars == {" ", "a"}

RECURSIVE Texts(_)
Texts(n) == IF n = 0 THEN {<<>>}
            ELSE Texts(n - 1) \cup {Append(t, c) : t \in {x \in Texts(n - 1) : Len(x) = n - 1}, c \in Chars}

RECURSIVE LStrip(_)
LStrip(s) == IF s # <<>> /\ Head(s) = " " THEN LStrip(Tail(s)) ELSE s

RECURSIVE RStrip(_)
RStrip(s) == IF s # <<>> /\ s[Len(s)] = " " THEN RStrip(SubSeq(s, 1, Len(s) - 1)) ELSE s

\* str.strip()
Strip(s) == RStrip(LStrip(s))

\* What a translation backend does with one call: it raises, or returns text.
Raise == [raised |-> TRUE, text |-> <<>>]
Returns(t) == [raised |-> FALSE, text |-> t]

\* `if translated and translated.strip()`
Usable(o) == ~o.raised /\ o.text # <<>> /\ Strip(o.text) # <<>>

\* no second backend
translate_no_fallback(text, g, m) ==
  IF text = <<>> \/ Strip(text) = <<>>
    THEN [out |-> <<>>, calls |-> <<>>]
  ELSE IF Usable(g)
    THEN [out |-> Strip(g.text), calls |-> <<"google">>]
  ELSE [out |-> <<>>, calls |-> <<"google">>]

translate_with_fallback(text, g, m) ==
  IF text = <<>> \/ Strip(text) = <<>>
    THEN [out |-> <<>>, calls |-> <<>>]
  ELSE IF Usable(g)
    THEN [out |-> Strip(g.text), calls |-> <<"google">>]
  ELSE IF Usable(m)
    THEN [out |-> Strip(m.text), calls |-> <<"google", "mymemory">>]
  ELSE [out |-> <<>>, calls |-> <<"google", "mymemory">>]

\* The texts and backend answers the cycles are run with.
Word == <<"a">>
Answers == {Raise, Returns(<<>>), Returns(Word)}
\* what translate_with_fallback can return for a title or a lead, and whether
\* the pair of translations passes `if not title_ru or not lead_ru`
TranslationResults == {translate_with_fallback(Word, g, m).out : g \in Answers, m \in Answers}
\* the lead's translation not tested
Translated_title(title_ru, lead_ru) == title_ru # <<>>

\* not (`not title_ru or not lead_ru`)
Translated(title_ru, lead_ru) == title_ru # <<>> /\ lead_ru # <<>>

BothTranslated == {Translated(title_ru, lead_ru) : title_ru \in TranslationResults, lead_ru \in TranslationResults}

\* ------------------------------------------------------------- feed data
\* entry.published_parsed: absent, or a time `age` minutes before the cycle's now
Ages == {WindowMinutes - 1, WindowMinutes, WindowMinutes + 1}
PubDates == {[dated |-> FALSE, age |-> 0]} \cup {[dated |-> TRUE, age |-> a] : a \in Ages}

\* a window of an hour
Stale_hour(p) == ~p.dated \/ p.age > MinutesPerHour

\* `if not pub_date or pub_date < cutoff`, with cutoff = now - 40 minutes
Stale(p) == ~p.dated \/ p.age > WindowMinutes

\* A URL is the address `base` (one of Urls) and a fragment (frag 0: none).
\* entry.link: absent/empty (NoUrl), or a URL with or without a fragment
NoUrl == [base |-> 0, frag |-> 0]
Frags == 0..1
LinksTo(bases) == {NoUrl} \cup {[base |-> b, frag |-> f] : b \in bases, f \in Frags}

\* the histories before anything was processed
NoEntry == [pub |-> [dated |-> FALSE, age |-> 0], link |-> NoUrl, boiler |-> FALSE, fate |-> "none"]
NoSkip == [url |-> NoUrl, earlier |-> FALSE, restaged |-> FALSE]

\* the fragment kept
urldefrag_identity(link) == link

\* urllib.parse.urldefrag(url)[0]: the URL without its fragment
urldefrag(link) == [link EXCEPT !.frag = 0]

\* entry.title and entry.summary are sequences of pieces of text: a piece is
\* one of the detector's phrases in some spelling, a keyword in some spelling,
\* or text that is neither. `x in text` is: x is one of the pieces.
Spellings == [lowered : {"appeared first on", "read more", "click here", "continue reading",
                         "©", "all rights reserved", "energy", "report"},
              upper : BOOLEAN]
Pieces == Spellings \ {[lowered |-> "©", upper |-> TRUE]}

\* str.lower(), piece by piece
lower(text) == [i \in DOMAIN text |-> [text[i] EXCEPT !.upper = FALSE]]

\* the text as written in the source
Literal(w) == [lowered |-> w, upper |-> FALSE]
\* "All rights reserved" is written in the source with a capital letter
Capitalised(w) == [lowered |-> w, upper |-> TRUE]

RECURSIVE SeqsUpTo(_, _)
SeqsUpTo(S, n) == IF n = 0 THEN {<<>>}
                  ELSE SeqsUpTo(S, n - 1) \cup {Append(t, c) : t \in {x \in SeqsUpTo(S, n - 1) : Len(x) = n - 1}, c \in S}

Titles == SeqsUpTo({Literal("energy"), Capitalised("energy"), Literal("report")}, 1)
Descs == SeqsUpTo(Pieces, MaxWords)

\* the list `generic` of is_generic_description
generic == {Literal("appeared first on"), Literal("read more"), Literal("click here"),
            Literal("continue reading"), Literal("©"), Capitalised("all rights reserved")}

\* `any(phrase in desc.lower() for phrase in generic)`
is_generic_description(desc) ==
  \E phrase \in generic : \E i \in DOMAIN desc : lower(desc)[i] = phrase

\* KEYWORDS_PATTERNS, as far as the pieces go
KEYWORDS_PATTERNS == {Literal("energy")}

\* `any(re.search(pattern, text.lower()) for pattern in KEYWORDS_PATTERNS)`
contains_keywords(text) ==
  \E pattern \in KEYWORDS_PATTERNS : \E i \in DOMAIN text : lower(text)[i] = pattern

\* `if not title or not desc or is_generic_description(desc)` and the keyword
\* gate on title + ' ' + desc
ContentOk(title, desc) ==
  /\ title # <<>>
  /\ desc # <<>>
  /\ ~is_generic_description(desc)
  /\ contains_keywords(title \o desc)

\* the description holds one of the detector's phrases, in whatever letter case
HasBoilerplate(desc) ==
  \E phrase \in generic : \E i \in DOMAIN desc : desc[i].lowered = phrase.lowered

\* What the content gates make of the titles and descriptions a feed can
\* carry: whether the description holds boilerplate, and whether the entry
\* passes.
ContentCases == {[boiler |-> HasBoilerplate(desc), ok |-> ContentOk(title, desc)] : title \in Titles, desc \in Descs}
ContentVerdicts == {c.ok : c \in ContentCases}

\* A staged item (prefix, title, lead, url); the prefix stands for its source.
Item(s, u) == [prefix |-> s, url |-> u]
Range(q) == {q[i] : i \in DOMAIN q}
UrlsOf(q) == {q[i].url : i \in DOMAIN q}

\* The URLs a feed entry is drawn from. URLs are told apart only by equality,
\* so the URLs no part of the state holds are interchangeable: an entry
\* carries a URL the state holds or the first one it does not.
Known == seen_urls \cup UrlsOf(new_articles)
BasesOf(S) == {u.base : u \in S}
FeedUrls == {u \in Urls : \A v \in Urls : v < u => v \in BasesOf(Known)}
Links == LinksTo(FeedUrls)

\* ------------------------------------------------------------- the lock
\* a lock that excludes nobody
CanAcquire_always(t) == TRUE

\* `with lock:` entry, for thread t
CanAcquire(t) == lock = Free

\* the lock not released
Unlock_kept(t) == t

\* `with lock:` exit, for thread t
Unlock(t) == Free

\* the membership test left out
IsSeen_never(u) == FALSE

\* `if url in seen_urls`
IsSeen(u) == u \in seen_urls

\* ------------------------------------------------------ the fetch cycle
\* the `for name, feed_url in SOURCES` loop moves on (or ends: commit)
EndSource ==
  /\ left' = 0
  /\ url' = NoUrl
  /\ IF src < NumSources
       THEN src' = src + 1 /\ kpc' = "parse"
       ELSE src' = src /\ kpc' = "commit"

\* `continue` in the `for entry in feed.entries` loop
NextEntry ==
  IF left > 1
    THEN left' = left - 1 /\ url' = NoUrl /\ src' = src /\ kpc' = "scan"
    ELSE EndSource

\* the `break` left out: the scan goes on with the source's next entry
AfterStage_nobreak == NextEntry

\* `break` after staging: the scan of this source's entries stops
AfterStage == EndSource

\* fetch_articles_for_window started again while a cycle is executing
keep_alive_call_async ==
  /\ kpc \in {"call", "parse", "scan", "check", "translate", "commit"}
  /\ kpc' = "parse"
  /\ src' = 1
  /\ left' = 0
  /\ url' = NoUrl
  /\ new_articles' = <<>>
  /\ seen_start' = seen_urls
  /\ UNCHANGED <<seen_urls, pending_articles, lock, sent_urls, sent_twice>>
  /\ UNCHANGED svars

\* keep_alive_activity calls fetch_articles_for_window
keep_alive_call ==
  /\ kpc = "call"
  /\ kpc' = "parse"
  /\ src' = 1
  /\ left' = 0
  /\ url' = NoUrl
  /\ new_articles' = <<>>
  /\ seen_start' = seen_urls
  /\ UNCHANGED <<seen_urls, pending_articles, lock, sent_urls, sent_twice>>
  /\ UNCHANGED svars

\* feedparser.parse raises, or returns no entries
fetch_parse_none ==
  /\ kpc = "parse"
  /\ EndSource
  /\ UNCHANGED <<new_articles, seen_start>>
  /\ UNCHANGED <<seen_urls, pending_articles, lock, sent_urls, sent_twice>>
  /\ UNCHANGED svars

\* feedparser.parse returns a feed of n entries
fetch_parse_entries ==
  /\ kpc = "parse"
  /\ \E n \in 1..MaxEntries : left' = n
  /\ kpc' = "scan"
  /\ UNCHANGED <<src, url, new_articles, seen_start>>
  /\ UNCHANGED <<seen_urls, pending_articles, lock, sent_urls, sent_twice>>
  /\ UNCHANGED svars

\* feedparser.parse never returns
fetch_parse_hang ==
  /\ kpc = "parse"
  /\ kpc' = "hung"
  /\ UNCHANGED <<src, left, url, new_articles, seen_start>>
  /\ UNCHANGED <<seen_urls, pending_articles, lock, sent_urls, sent_twice>>
  /\ UNCHANGED svars

\* What the freshness gate and the link gate leave of an entry: NoUrl when the
\* entry is skipped, its canonical URL otherwise.
Gated(p, link) == IF Stale(p) \/ link = NoUrl THEN NoUrl ELSE urldefrag(link)

\* the next entry of the feed: the freshness gate and the link gate
fetch_entry ==
  /\ kpc = "scan"
  /\ \E u \in {Gated(p, link) : p \in PubDates, link \in Links} :
       IF u = NoUrl
         THEN NextEntry
         ELSE /\ url' = u
              /\ kpc' = "check"
              /\ UNCHANGED <<src, left>>
  /\ UNCHANGED <<new_articles, seen_start>>
  /\ UNCHANGED <<seen_urls, pending_articles, lock, sent_urls, sent_twice>>
  /\ UNCHANGED svars

\* the exception leaves the `for name, feed_url in SOURCES` loop too: the
\* cycle ends without its commit
fetch_entry_abort ==
  /\ kpc \in {"scan", "check", "translate"}
  /\ kpc' = "sleep"
  /\ left' = 0
  /\ url' = NoUrl
  /\ src' = src
  /\ UNCHANGED <<new_articles, seen_start>>
  /\ UNCHANGED <<seen_urls, pending_articles, lock, sent_urls, sent_twice>>
  /\ UNCHANGED svars

\* the exception ends the keep-alive thread
fetch_entry_die ==
  /\ kpc \in {"scan", "check", "translate"}
  /\ kpc' = "dead"
  /\ UNCHANGED <<src, left, url, new_articles, seen_start>>
  /\ UNCHANGED <<seen_urls, pending_articles, lock, sent_urls, sent_twice>>
  /\ UNCHANGED svars

\* processing an entry raises (reading its fields, get_lead, get_prefix): the
\* source's `except` ends this source
fetch_entry_raise ==
  /\ kpc \in {"scan", "check", "translate"}
  /\ EndSource
  /\ UNCHANGED <<new_articles, seen_start>>
  /\ UNCHANGED <<seen_urls, pending_articles, lock, sent_urls, sent_twice>>
  /\ UNCHANGED svars

\* `with lock: if url in seen_urls: continue`, then the title/summary/keyword
\* gates
fetch_check ==
  /\ kpc = "check"
  /\ CanAcquire(FetchThread)
  /\ lock' = Unlock(FetchThread)
  /\ \E ok \in ContentVerdicts :
       IF IsSeen(url) \/ ~ok
         THEN NextEntry
         ELSE kpc' = "translate" /\ UNCHANGED <<src, left, url>>
  /\ UNCHANGED <<new_articles, seen_start>>
  /\ UNCHANGED <<seen_urls, pending_articles, sent_urls, sent_twice>>
  /\ UNCHANGED svars

\* the two translate_with_fallback calls, then stage-and-break or skip
fetch_translate ==
  /\ kpc = "translate"
  /\ \E ok \in BothTranslated :
       IF ok
         THEN /\ new_articles' = Append(new_articles, Item(src, url))
              /\ AfterStage
         ELSE /\ new_articles' = new_articles
              /\ NextEntry
  /\ UNCHANGED seen_start
  /\ UNCHANGED <<seen_urls, pending_articles, lock, sent_urls, sent_twice>>
  /\ UNCHANGED svars

\* `with lock: pending_articles = new_articles`
fetch_assign ==
  /\ kpc = "commit"
  /\ CanAcquire(FetchThread)
  /\ lock' = FetchThread
  /\ pending_articles' = new_articles
  /\ kpc' = "mark"
  /\ UNCHANGED <<src, left, url, new_articles, seen_start>>
  /\ UNCHANGED <<seen_urls, sent_urls, sent_twice>>
  /\ UNCHANGED svars

\* seen_urls replaced by the staged URLs
MarkSeen_replaces(staged) == UrlsOf(staged)

\* the staged URLs not added
MarkSeen_forgets(staged) == seen_urls

\* the URL skipped for its translation added as well
MarkSeen_skipped(staged) == seen_urls \cup UrlsOf(staged) \cup ({skipped.url} \ {NoUrl})

\* seen_urls after `for _, _, _, url in new_articles: seen_urls.add(url)`
MarkSeen(staged) == seen_urls \cup UrlsOf(staged)

\* the seen_urls.add loop, the lock is released, the cycle returns (its
\* locals are gone) and keep_alive_activity goes to sleep
fetch_mark ==
  /\ kpc = "mark"
  /\ seen_urls' = MarkSeen(new_articles)
  /\ lock' = Unlock(FetchThread)
  /\ kpc' = "sleep"
  /\ new_articles' = <<>>
  /\ seen_start' = seen_urls'
  /\ UNCHANGED <<src, left, url>>
  /\ UNCHANGED <<pending_articles, sent_urls, sent_twice>>
  /\ UNCHANGED svars

\* time.sleep(14 * 60) is over
keep_alive_wake ==
  /\ kpc = "sleep"
  /\ kpc' = "call"
  /\ UNCHANGED <<src, left, url, new_articles, seen_start>>
  /\ UNCHANGED <<seen_urls, pending_articles, lock, sent_urls, sent_twice>>
  /\ UNCHANGED svars

\* ------------------------------------- the fetch cycle, entry by entry
\* The same steps with the entry's fields drawn one by one and remembered in
\* `entry`, together with what became of the entry (its fate).

\* lines 153-162: published_parsed, then link
scan_entry ==
  /\ fetch_entry
  /\ \E p \in PubDates, link \in Links :
       /\ Stale(p) => link = NoUrl
       /\ url' = Gated(p, link)
       /\ entry' = [pub |-> p, link |-> link, boiler |-> FALSE,
                    fate |-> IF Stale(p) THEN "stale" ELSE IF link = NoUrl THEN "nolink" ELSE "read"]
  /\ UNCHANGED <<first_link, skipped>>

\* lines 164-175: the membership test, then title, summary and the content gates
check_entry ==
  /\ fetch_check
  /\ IF IsSeen(url)
       THEN entry' = [entry EXCEPT !.fate = "seen"]
       ELSE \E c \in ContentCases :
              /\ (kpc' = "translate") = c.ok
              /\ entry' = [entry EXCEPT !.boiler = c.boiler, !.fate = IF c.ok THEN "gated" ELSE "content"]
  /\ UNCHANGED <<first_link, skipped>>

\* lines 177-188: the translations, then skip or stage
translate_entry ==
  /\ fetch_translate
  /\ \E ok \in BothTranslated :
       /\ (new_articles' # new_articles) = ok
       /\ entry' = [entry EXCEPT !.fate = IF ok THEN "staged" ELSE "untranslated"]
       /\ first_link' = IF ok /\ first_link = NoUrl THEN entry.link ELSE first_link
       /\ skipped' = IF ~ok THEN [url |-> url, earlier |-> FALSE, restaged |-> url \in UrlsOf(new_articles)]
                     ELSE IF skipped.url = url
                            THEN [skipped EXCEPT !.restaged = TRUE]
                            ELSE skipped

\* lines 190-191
raise_entry ==
  /\ fetch_entry_raise
  /\ entry' = [entry EXCEPT !.fate = "raised"]
  /\ UNCHANGED <<first_link, skipped>>

\* lines 193-198: the commit; the cycle returns and its loop variable is gone
return_entries ==
  /\ fetch_mark
  /\ entry' = NoEntry
  /\ skipped' = IF skipped = NoSkip \/ skipped.restaged THEN skipped ELSE [skipped EXCEPT !.earlier = TRUE]
  /\ UNCHANGED first_link

\* ---------------------------------------------------- the publish cycle
\* A publish thread: where it is, its articles_to_send, the item it works on.
Thread(pc, articles, i) == [pc |-> pc, articles_to_send |-> articles, i |-> i]
Live == BagToSet(senders)
Without(r) == senders (-) SetToBag({r})
Becomes(r, q) == Without(r) (+) SetToBag({q})

\* the publish cycle started only once the fetch cycle has returned
StartSender_joined ==
  /\ kpc \in {"call", "sleep"}
  /\ BagCardinality(senders) < MaxSenders
  /\ senders' = senders (+) SetToBag({Thread("start", <<>>, 0)})
  /\ UNCHANGED <<seen_urls, pending_articles, lock, sent_urls, sent_twice>>
  /\ UNCHANGED fvars

\* threading.Thread(target=send_pending_articles, daemon=True).start()
StartSender ==
  /\ BagCardinality(senders) < MaxSenders
  /\ senders' = senders (+) SetToBag({Thread("start", <<>>, 0)})
  /\ UNCHANGED <<seen_urls, pending_articles, lock, sent_urls, sent_twice>>
  /\ UNCHANGED fvars

\* `with lock: articles_to_send = pending_articles.copy()`
sender_copy ==
  /\ \E r \in Live :
       /\ r.pc = "start"
       /\ senders' = Becomes(r, [r EXCEPT !.pc = "clear", !.articles_to_send = pending_articles])
  /\ CanAcquire(SenderThread)
  /\ lock' = SenderThread
  /\ UNCHANGED <<seen_urls, pending_articles, sent_urls, sent_twice>>
  /\ UNCHANGED fvars

\* the `for ... in articles_to_send` loop of thread r takes item i, or the
\* loop is over and the thread ends
SenderAt(r, i) ==
  IF i <= Len(r.articles_to_send)
    THEN senders' = Becomes(r, [r EXCEPT !.pc = "item", !.i = i])
    ELSE senders' = Without(r)

\* `pending_articles.clear()`, the lock is released, the loop starts
sender_clear ==
  /\ \E r \in Live :
       /\ r.pc = "clear"
       /\ SenderAt(r, 1)
  /\ pending_articles' = <<>>
  /\ lock' = Unlock(SenderThread)
  /\ UNCHANGED <<seen_urls, sent_urls, sent_twice>>
  /\ UNCHANGED fvars

\* item i of the batch: the two translate_with_fallback calls and, when both
\* give text, bot.send_message (which returns or raises); then the loop goes on
sender_item ==
  /\ \E r \in Live :
       /\ r.pc = "item"
       /\ SenderAt(r, r.i + 1)
       /\ \E ok \in BothTranslated :
            IF ok
              THEN /\ sent_urls' = sent_urls \cup {r.articles_to_send[r.i].url}
                   /\ sent_twice' = (sent_twice \/ r.articles_to_send[r.i].url \in sent_urls)
              ELSE UNCHANGED <<sent_urls, sent_twice>>
  /\ UNCHANGED <<seen_urls, pending_articles, lock>>
  /\ UNCHANGED fvars

\* ------------------------------------- the publish cycle, item by item
\* The step of sender_item with the two translations and the outcome of
\* bot.send_message drawn; `failed` collects the URLs of the items that
\* were skipped or whose send raised (this specification keeps the histories
\* sent_untranslated and failed, not sent_urls and sent_twice).

\* the thread ends at the first item that is skipped or whose send raises
AfterAttempt_abort(r, done) == IF done THEN SenderAt(r, r.i + 1) ELSE senders' = Without(r)

\* `continue`, the end of the `try` body, or the `except` inside the loop: the
\* loop goes on with the next item
AfterAttempt(r, done) == SenderAt(r, r.i + 1)

\* an item that was skipped or whose send raised is put back
QueueAfter_requeue(item, done) == IF done THEN pending_articles ELSE Append(pending_articles, item)

\* pending_articles after an attempt: the loop does not write it
QueueAfter(item, done) == pending_articles

\* What the body of the loop can do with an item: whether bot.send_message
\* is called, whether that was with an empty translation, and whether the
\* item got through (called, and the call did not raise).
Attempts ==
  {[called |-> Translated(title_ru, lead_ru),
    untranslated |-> Translated(title_ru, lead_ru) /\ (title_ru = <<>> \/ lead_ru = <<>>),
    done |-> Translated(title_ru, lead_ru) /\ ~raises] :
     title_ru \in TranslationResults, lead_ru \in TranslationResults, raises \in BOOLEAN}

publish_item ==
  /\ \E r \in Live :
       /\ r.pc = "item"
       /\ \E a \in Attempts :
            LET item == r.articles_to_send[r.i]
            IN /\ sent_untranslated' = (sent_untranslated \/ a.untranslated)
               /\ failed' = IF a.done THEN failed ELSE failed \cup {item.url}
               /\ pending_articles' = QueueAfter(item, a.done)
               /\ AfterAttempt(r, a.done)
  /\ UNCHANGED <<seen_urls, lock, sent_urls, sent_twice>>
  /\ UNCHANGED fvars

\* the publish thread r takes its step
Steps(r) == CopiesIn(r, senders') < CopiesIn(r, senders)

\* ------------------------------------------------------------ the clock
\* the boundaries :20 and :50 instead of :30 and :00
NextSend_2050(minute) == IF minute < 20 THEN 20 ELSE IF minute < 50 THEN 50 ELSE 20

\* next_send of schedule_send_loop, from now.minute
NextSend(minute) == IF minute < HalfHour THEN HalfHour ELSE 0

\* schedule_send_loop reads the clock and computes next_send
schedule_compute ==
  /\ pc_s = "compute"
  /\ next_send' = NextSend(now)
  /\ pc_s' = "sleep"
  /\ UNCHANGED <<now, sleep_left, after_hang>>
  /\ UNCHANGED <<seen_urls, pending_articles, lock, sent_urls, sent_twice>>
  /\ UNCHANGED fvars
  /\ UNCHANGED svars

\* the sleep until next_send is over
SendDue == pc_s = "sleep" /\ now = next_send

\* schedule_send_loop wakes and starts the publish thread
schedule_launch ==
  /\ SendDue
  /\ StartSender
  /\ pc_s' = "compute"
  /\ after_hang' = (after_hang \/ kpc = "hung")
  /\ UNCHANGED <<now, next_send, sleep_left>>

\* the cycle has returned: time.sleep(14 * 60) begins
timed_fetch_mark ==
  /\ fetch_mark
  /\ sleep_left' = KeepAliveMinutes
  /\ UNCHANGED <<now, pc_s, next_send, after_hang>>

\* time.sleep(14 * 60) has lasted 14 minutes
timed_keep_alive_wake ==
  /\ sleep_left = 0
  /\ keep_alive_wake
  /\ UNCHANGED tvars

\* A minute passes. A thread whose sleep is over, or that is between two
\* statements that take no time, runs before the minute ends.
Tick ==
  /\ pc_s = "sleep"
  /\ ~SendDue
  /\ kpc # "call"
  /\ ~(kpc = "sleep" /\ sleep_left = 0)
  /\ now' = (now + 1) % MinutesPerHour
  /\ sleep_left' = IF sleep_left > 0 THEN sleep_left - 1 ELSE 0
  /\ UNCHANGED <<pc_s, next_send, after_hang>>
  /\ UNCHANGED <<seen_urls, pending_articles, lock, sent_urls, sent_twice>>
  /\ UNCHANGED fvars
  /\ UNCHANGED svars

\* ------------------------------------- translate_with_fallback, applied
Outcomes == {Raise} \cup {Returns(t) : t \in Texts(MaxLen)}

translate_call ==
  /\ ~tres.done
  /\ tres' = [done |-> TRUE,
              out |-> translate_with_fallback(targ.text, targ.g, targ.m).out,
              calls |-> translate_with_fallback(targ.text, targ.g, targ.m).calls]
  /\ UNCHANGED targ
  /\ UNCHANGED <<seen_urls, pending_articles, lock, sent_urls, sent_twice>>
  /\ UNCHANGED fvars
  /\ UNCHANGED svars
  /\ UNCHANGED tvars
  /\ UNCHANGED hvars

\* -------------------------------------------------------- specifications
DataInit ==
  /\ seen_urls = {}
  /\ pending_articles = <<>>
  /\ lock = Free
  /\ kpc = "call"
  /\ src = 1
  /\ left = 0
  /\ url = NoUrl
  /\ new_articles = <<>>
  /\ seen_start = {}
  /\ senders = EmptyBag
  /\ sent_urls = {}
  /\ sent_twice = FALSE

ClockInit ==
  /\ pc_s = "compute"
  /\ next_send = 0
  /\ sleep_left = 0
  /\ after_hang = FALSE

HarnessInit ==
  /\ targ = [text |-> <<>>, g |-> Raise, m |-> Raise]
  /\ tres = [done |-> FALSE, out |-> <<>>, calls |-> <<>>]

HistoryInit ==
  /\ entry = NoEntry
  /\ first_link = NoUrl
  /\ skipped = NoSkip
  /\ sent_untranslated = FALSE
  /\ failed = {}

\* Spec: the clock is not followed; every sleep may end at any moment.
Init == DataInit /\ ClockInit /\ now = 0 /\ HarnessInit /\ HistoryInit

Next ==
  \/ keep_alive_call /\ UNCHANGED <<tvars, xvars, hvars>>
  \/ fetch_parse_none /\ UNCHANGED <<tvars, xvars, hvars>>
  \/ fetch_parse_entries /\ UNCHANGED <<tvars, xvars, hvars>>
  \/ fetch_entry /\ UNCHANGED <<tvars, xvars, hvars>>
  \/ fetch_entry_raise /\ UNCHANGED <<tvars, xvars, hvars>>
  \/ fetch_check /\ UNCHANGED <<tvars, xvars, hvars>>
  \/ fetch_translate /\ UNCHANGED <<tvars, xvars, hvars>>
  \/ fetch_assign /\ UNCHANGED <<tvars, xvars, hvars>>
  \/ fetch_mark /\ UNCHANGED <<tvars, xvars, hvars>>
  \/ keep_alive_wake /\ UNCHANGED <<tvars, xvars, hvars>>
  \/ StartSender /\ UNCHANGED <<tvars, xvars, hvars>>
  \/ sender_copy /\ UNCHANGED <<tvars, xvars, hvars>>
  \/ sender_clear /\ UNCHANGED <<tvars, xvars, hvars>>
  \/ sender_item /\ UNCHANGED <<tvars, xvars, hvars>>

Spec == Init /\ [][Next]_vars

\* SpecTimed: the process starts at any minute; the feeds deliver no entries.
InitTimed == DataInit /\ ClockInit /\ now \in Minutes /\ HarnessInit /\ HistoryInit

NextTimed ==
  \/ Tick /\ UNCHANGED <<xvars, hvars>>
  \/ schedule_compute /\ UNCHANGED <<xvars, hvars>>
  \/ schedule_launch /\ UNCHANGED <<xvars, hvars>>
  \/ keep_alive_call /\ UNCHANGED <<tvars, xvars, hvars>>
  \/ fetch_parse_none /\ UNCHANGED <<tvars, xvars, hvars>>
  \/ fetch_parse_hang /\ UNCHANGED <<tvars, xvars, hvars>>
  \/ fetch_assign /\ UNCHANGED <<tvars, xvars, hvars>>
  \/ timed_fetch_mark /\ UNCHANGED <<xvars, hvars>>
  \/ timed_keep_alive_wake /\ UNCHANGED <<xvars, hvars>>
  \/ sender_copy /\ UNCHANGED <<tvars, xvars, hvars>>
  \/ sender_clear /\ UNCHANGED <<tvars, xvars, hvars>>

SpecTimed == InitTimed /\ [][NextTimed]_vars

\* SpecFair: time passes, every thread that can run does run, a thread waiting
\* for the lock gets it when the lock is free again and again (strong
\* fairness of the two acquiring steps), and every call that is going to
\* return does return; a hung call is the step fetch_parse_hang, after which
\* the keep-alive thread takes no step.
Fairness ==
  /\ WF_vars(Tick /\ UNCHANGED <<xvars, hvars>>)
  /\ WF_vars(schedule_compute /\ UNCHANGED <<xvars, hvars>>)
  /\ WF_vars(schedule_launch /\ UNCHANGED <<xvars, hvars>>)
  /\ WF_vars(keep_alive_call /\ UNCHANGED <<tvars, xvars, hvars>>)
  /\ WF_vars((fetch_parse_none \/ fetch_parse_hang) /\ UNCHANGED <<tvars, xvars, hvars>>)
  /\ SF_vars(fetch_assign /\ UNCHANGED <<tvars, xvars, hvars>>)
  /\ WF_vars(timed_fetch_mark /\ UNCHANGED <<xvars, hvars>>)
  /\ WF_vars(timed_keep_alive_wake /\ UNCHANGED <<xvars, hvars>>)
  /\ SF_vars(sender_copy /\ UNCHANGED <<tvars, xvars, hvars>>)
  /\ WF_vars(sender_clear /\ UNCHANGED <<tvars, xvars, hvars>>)

SpecFair == InitTimed /\ [][NextTimed]_vars /\ Fairness

\* SpecEntries: the keep-alive thread alone, its fetch cycles entry by entry.
NextEntries ==
  \/ keep_alive_call /\ UNCHANGED <<tvars, xvars, hvars>>
  \/ fetch_parse_none /\ UNCHANGED <<tvars, xvars, hvars>>
  \/ fetch_parse_entries /\ UNCHANGED <<tvars, xvars, hvars>>
  \/ scan_entry /\ UNCHANGED <<tvars, xvars, pvars>>
  \/ check_entry /\ UNCHANGED <<tvars, xvars, pvars>>
  \/ translate_entry /\ UNCHANGED <<tvars, xvars, pvars>>
  \/ raise_entry /\ UNCHANGED <<tvars, xvars, pvars>>
  \/ fetch_assign /\ UNCHANGED <<tvars, xvars, hvars>>
  \/ return_entries /\ UNCHANGED <<tvars, xvars, pvars>>
  \/ keep_alive_wake /\ UNCHANGED <<tvars, xvars, hvars>>

SpecEntries == Init /\ [][NextEntries]_vars

\* SpecPublish: the threads of Spec, the publish cycles item by item.
NextPublish ==
  \/ keep_alive_call /\ UNCHANGED <<tvars, xvars, hvars>>
  \/ fetch_parse_none /\ UNCHANGED <<tvars, xvars, hvars>>
  \/ fetch_parse_entries /\ UNCHANGED <<tvars, xvars, hvars>>
  \/ fetch_entry /\ UNCHANGED <<tvars, xvars, hvars>>
  \/ fetch_entry_raise /\ UNCHANGED <<tvars, xvars, hvars>>
  \/ fetch_check /\ UNCHANGED <<tvars, xvars, hvars>>
  \/ fetch_translate /\ UNCHANGED <<tvars, xvars, hvars>>
  \/ fetch_assign /\ UNCHANGED <<tvars, xvars, hvars>>
  \/ fetch_mark /\ UNCHANGED <<tvars, xvars, hvars>>
  \/ keep_alive_wake /\ UNCHANGED <<tvars, xvars, hvars>>
  \/ StartSender /\ UNCHANGED <<tvars, xvars, hvars>>
  \/ sender_copy /\ UNCHANGED <<tvars, xvars, hvars>>
  \/ sender_clear /\ UNCHANGED <<tvars, xvars, hvars>>
  \/ publish_item /\ UNCHANGED <<tvars, xvars, evars>>

SpecPublish == Init /\ [][NextPublish]_vars

\* SpecLive: SpecPublish under fair scheduling. Every thread that can take a
\* step takes it, every call returns or raises (no call hangs), every sleep
\* ends, and a thread that waits for the lock gets it when the lock is free
\* again and again.
FairnessLive ==
  /\ WF_vars(keep_alive_call /\ UNCHANGED <<tvars, xvars, hvars>>)
  /\ WF_vars((fetch_parse_none \/ fetch_parse_entries) /\ UNCHANGED <<tvars, xvars, hvars>>)
  /\ WF_vars((fetch_entry \/ fetch_entry_raise) /\ UNCHANGED <<tvars, xvars, hvars>>)
  /\ SF_vars(fetch_check /\ UNCHANGED <<tvars, xvars, hvars>>)
  /\ WF_vars(fetch_translate /\ UNCHANGED <<tvars, xvars, hvars>>)
  /\ SF_vars(fetch_assign /\ UNCHANGED <<tvars, xvars, hvars>>)
  /\ WF_vars(fetch_mark /\ UNCHANGED <<tvars, xvars, hvars>>)
  /\ WF_vars(keep_alive_wake /\ UNCHANGED <<tvars, xvars, hvars>>)
  /\ WF_vars(StartSender /\ UNCHANGED <<tvars, xvars, hvars>>)
  /\ SF_vars(sender_copy /\ UNCHANGED <<tvars, xvars, hvars>>)
  /\ WF_vars(sender_clear /\ UNCHANGED <<tvars, xvars, hvars>>)
  /\ WF_vars(publish_item /\ UNCHANGED <<tvars, xvars, evars>>)

SpecLive == Init /\ [][NextPublish]_vars /\ FairnessLive

\* SpecTranslate: one call of translate_with_fallback on drawn inputs.
InitTranslate ==
  /\ DataInit /\ ClockInit /\ now = 0 /\ HistoryInit
  /\ targ \in [text : Texts(MaxLen), g : Outcomes, m : Outcomes]
  /\ tres = [done |-> FALSE, out |-> <<>>, calls |-> <<>>]

NextTranslate == translate_call

SpecTranslate == InitTranslate /\ [][NextTranslate]_vars

\* ----------------------------------------------------------------- claims
\* the positions of the keep-alive thread inside an outside call
InCall == {"parse", "translate", "hung"}

NoDuplicates(q) == \A i \in DOMAIN q, j \in DOMAIN q : i # j => q[i].prefix # q[j].prefix

\* C1: no item a fetch cycle stages, or has put into pending_articles, has a
\* URL that was in seen_urls when that cycle started.
C1_NoRestaging ==
  /\ UrlsOf(new_articles) \cap seen_start = {}
  /\ kpc = "mark" => UrlsOf(pending_articles) \cap seen_start = {}

\* A cycle that has already staged an item is at an entry whose URL was seen
\* before the cycle started.
C1_Witness == kpc = "check" /\ url \in seen_start /\ new_articles # <<>>

\* C2: an item leaves pending_articles only by being in the batch of a publish
\* thread (the drain), never by a later fetch cycle's commit.
C2_NoLoss ==
  [][\A a \in Range(pending_articles) \ Range(pending_articles') :
       \E r \in BagToSet(senders') : a \in Range(r.articles_to_send)]_vars

\* C3: bot.send_message is called at most once for any canonical URL.
C3_AtMostOnce == ~sent_twice

\* C4: pending_articles (and the list a cycle is staging) holds at most one
\* item per source, hence at most |SOURCES| items.
C4_OnePerSource ==
  /\ Len(pending_articles) <= NumSources
  /\ NoDuplicates(pending_articles)
  /\ Len(new_articles) <= NumSources
  /\ NoDuplicates(new_articles)

\* Every source has an item in the queue.
C4_Witness == Len(pending_articles) = NumSources

\* the steps in which a cycle is launched
FetchLaunched == kpc = "call" /\ kpc' = "parse"
PublishLaunched == BagCardinality(senders') > BagCardinality(senders)

C7_Snapshot ==
  /\ kpc = "mark" => pending_articles = new_articles
  /\ \A r \in Live : r.pc = "clear" => r.articles_to_send = pending_articles
  /\ \A r \in Live : r.articles_to_send # <<>> =>
       /\ CopiesIn(r, senders) = 1
       /\ \A q \in Live \ {r} : Range(q.articles_to_send) \cap Range(r.articles_to_send) = {}

\* A publish thread holds a non-empty snapshot under the lock while another
\* publish thread and a fetch cycle with staged items wait for the lock.
C7_Witness ==
  /\ \E r \in Live : r.pc = "clear" /\ r.articles_to_send # <<>>
  /\ \E q \in Live : q.pc = "start"
  /\ kpc = "commit"
  /\ new_articles # <<>>

\* C8: whenever the lock is free, every URL of an item in pending_articles is
\* in seen_urls.
C8_QueuedIsSeen == lock = Free => UrlsOf(pending_articles) \subseteq seen_urls

\* A committed batch is in the queue and the lock is free.
C8_Witness == lock = Free /\ pending_articles # <<>> /\ kpc = "sleep"

\* C9: a thread inside feedparser.parse, translate_with_fallback or
\* bot.send_message does not hold the lock: when the keep-alive thread is in
\* such a call the lock is not its own, and when the lock is a publish
\* thread's, that thread is inside its `with` block.
C9_NoLockInCalls ==
  /\ kpc \in InCall => lock # FetchThread
  /\ lock = FetchThread => kpc = "mark"
  /\ lock = SenderThread => \E r \in Live : r.pc = "clear"

\* The keep-alive thread is in a translation call and one publish thread in
\* its item calls while another publish thread holds the lock.
C9_Witness ==
  /\ kpc = "translate"
  /\ \E r \in Live : r.pc = "item"
  /\ lock = SenderThread

\* what the claim calls a backend returning non-empty text
NonEmpty(o) == ~o.raised /\ o.text # <<>>
Blank(text) == text = <<>> \/ Strip(text) = <<>>

\* C10, as claimed: "non-empty" and "output" taken literally.
C10_Literal ==
  tres.done =>
    /\ Blank(targ.text) => tres.out = <<>> /\ tres.calls = <<>>
    /\ ~Blank(targ.text) /\ NonEmpty(targ.g) => tres.out = targ.g.text
    /\ ~Blank(targ.text) /\ ~NonEmpty(targ.g) /\ NonEmpty(targ.m) => tres.out = targ.m.text
    /\ ~Blank(targ.text) /\ ~NonEmpty(targ.g) /\ ~NonEmpty(targ.m) => tres.out = <<>>
    /\ "mymemory" \in Range(tres.calls) => ~NonEmpty(targ.g)

\* C10, amended: a backend's output counts when it is not blank (empty or
\* whitespace only), and what is returned is that output stripped.
C10_Stripped ==
  tres.done =>
    /\ Blank(targ.text) => tres.out = <<>> /\ tres.calls = <<>>
    /\ ~Blank(targ.text) /\ Usable(targ.g) =>
         tres.out = Strip(targ.g.text) /\ tres.calls = <<"google">>
    /\ ~Blank(targ.text) /\ ~Usable(targ.g) /\ Usable(targ.m) =>
         tres.out = Strip(targ.m.text) /\ tres.calls = <<"google", "mymemory">>
    /\ ~Blank(targ.text) /\ ~Usable(targ.g) /\ ~Usable(targ.m) =>
         tres.out = <<>> /\ tres.calls = <<"google", "mymemory">>

\* The primary returned whitespace only and the secondary's padded text was
\* returned, stripped.
C10_Witness ==
  /\ tres.done
  /\ ~Blank(targ.text)
  /\ NonEmpty(targ.g) /\ ~Usable(targ.g)
  /\ Usable(targ.m) /\ targ.m.text # Strip(targ.m.text)
  /\ tres.out = Strip(targ.m.text)

\* the step in which the source being processed fails: feedparser.parse
\* raises or gives no entries, or processing one of its entries raises
SourceFails ==
  \/ kpc = "parse" /\ kpc' # "scan" /\ kpc' # "hung"
  \/ kpc \in {"scan", "check", "translate"} /\ entry'.fate = "raised"

\* C11: a source that fails leaves the cycle where a source with no entries
\* leaves it: nothing staged so far is touched, nothing is committed or marked
\* seen, the next source is processed, or after the last source the commit;
\* and a cycle ends (the thread goes to sleep) only through its commit.
C11_Isolation ==
  [][/\ SourceFails =>
          /\ new_articles' = new_articles
          /\ seen_urls' = seen_urls
          /\ pending_articles' = pending_articles
          /\ lock' = lock
          /\ left' = 0
          /\ IF src < NumSources
               THEN kpc' = "parse" /\ src' = src + 1
               ELSE kpc' = "commit" /\ src' = src
     /\ kpc' \in {"commit", "mark"} => src' = NumSources
     /\ kpc # "sleep" /\ kpc' = "sleep" => kpc = "mark" /\ pending_articles = new_articles]_vars

\* Processing the last source raised, and the cycle is committing the item it
\* staged from another source.
C11_Witness ==
  /\ entry.fate = "raised"
  /\ kpc = "mark"
  /\ pending_articles # <<>>
  /\ pending_articles = new_articles

\* C12: a publish thread that takes an item goes on to the next item of its
\* batch whatever became of this one (skipped, sent, or the send raised), and
\* ends only after the last item, so every item of the batch is attempted;
\* and bot.send_message is never called with an empty translated title or lead.
C12_ItemIsolation ==
  [][/\ ~sent_untranslated'
     /\ \A r \in Live : r.pc = "item" /\ Steps(r) =>
          IF r.i < Len(r.articles_to_send)
            THEN CopiesIn([r EXCEPT !.i = r.i + 1], senders') > CopiesIn([r EXCEPT !.i = r.i + 1], senders)
            ELSE BagCardinality(senders') = BagCardinality(senders) - 1
     /\ \A r \in BagToSet(senders') : r.pc = "item" => r.i \in 1..Len(r.articles_to_send)]_vars

\* A publish thread is at the second item of its batch after the first one
\* was skipped or its send raised.
C12_Witness ==
  \E r \in Live :
    /\ r.pc = "item"
    /\ r.i = 2
    /\ r.articles_to_send[1].url \in failed
    /\ r.articles_to_send[2].url # r.articles_to_send[1].url

\* C13: the URL of a drained item that was skipped or whose send raised stays
\* in seen_urls, is in no item of the queue or of a fetch cycle's staged list,
\* and is in the batch of no publish thread but the one that attempted it.
C13_NoRequeue ==
  /\ failed \subseteq seen_urls
  /\ failed \cap UrlsOf(pending_articles) = {}
  /\ failed \cap UrlsOf(new_articles) = {}
  /\ \A r \in Live : \A k \in DOMAIN r.articles_to_send :
       r.articles_to_send[k].url \in failed =>
         /\ r.pc = "item"
         /\ \E j \in 1..(r.i - 1) : r.articles_to_send[j].url = r.articles_to_send[k].url

\* After an item failed, a later fetch cycle is at an entry with its URL while
\* a later publish cycle works on a batch without it.
C13_Witness ==
  /\ kpc = "check"
  /\ url \in failed
  /\ \E r \in Live : r.pc = "item" /\ UrlsOf(r.articles_to_send) \cap failed = {}

\* the fates of an entry that has passed the freshness gate
PastFreshness == {"nolink", "read", "seen", "content", "gated", "untranslated", "staged"}

\* C14: an entry without a publication time, or published more than 40
\* minutes before the cycle's start, is not staged (it does not get past the
\* freshness gate); an entry published less than 40 minutes before the start
\* is not rejected by the freshness gate.
C14_Freshness ==
  /\ entry.fate \in PastFreshness => entry.pub.dated /\ entry.pub.age <= WindowMinutes
  /\ entry.pub.dated /\ entry.pub.age < WindowMinutes => entry.fate # "stale"
  /\ entry.fate = "stale" => ~entry.pub.dated \/ entry.pub.age > WindowMinutes

\* An entry published 39 minutes before the cycle's start has been staged.
C14_Witness ==
  /\ entry.fate = "staged"
  /\ entry.pub.age = WindowMinutes - 1
  /\ new_articles # <<>>

\* C15, as claimed: an entry whose description holds one of the detector's
\* phrases, in whatever letter case, does not get past the content gates and
\* is not staged.
C15_Boilerplate == entry.fate \in {"gated", "untranslated", "staged"} => ~entry.boiler

\* the canonical key is the same for all the fragment variants of a link
SameKey == \A l \in LinksTo(Urls), m \in LinksTo(Urls) : l.base = m.base => urldefrag(l) = urldefrag(m)

\* C16: the fragment variants of a link have one canonical key; an entry is
\* not staged when any fragment variant of its link was committed by an
\* earlier cycle; no staged, queued or seen URL has a fragment.
C16_Fragments ==
  /\ SameKey
  /\ \A u \in seen_urls \cup UrlsOf(new_articles) \cup UrlsOf(pending_articles) : u.frag = 0
  /\ url # NoUrl => url = [base |-> entry.link.base, frag |-> 0]
  /\ entry.fate = "staged" => entry.link.base \notin BasesOf(seen_start)

\* An entry is skipped as seen whose link differs in the fragment from the
\* link of the entry that was staged and committed for that URL.
C16_Witness ==
  /\ entry.fate = "seen"
  /\ first_link # NoUrl
  /\ first_link.base = entry.link.base
  /\ first_link.frag # entry.link.frag

\* C20, as claimed: the step that skips an entry for an empty translation
\* stages nothing and adds nothing to seen_urls, and when the cycle that
\* skipped the entry returns, the entry's URL is not in seen_urls (the entry
\* is still eligible).
C20_Literal ==
  [][/\ kpc = "translate" /\ entry'.fate = "untranslated" =>
          /\ new_articles' = new_articles
          /\ seen_urls' = seen_urls
     /\ seen_urls' # seen_urls => kpc = "mark" /\ seen_urls' = seen_urls \cup UrlsOf(new_articles)
     /\ kpc = "mark" /\ kpc' = "sleep" /\ skipped # NoSkip /\ ~skipped.earlier =>
          skipped.url \notin seen_urls']_vars

\* C20, amended: the step that skips an entry for an empty translation stages nothing,
\* adds nothing to seen_urls and goes on with the next entry of the same
\* source (or, after the last entry, with the next source); seen_urls changes
\* only in the commit, by exactly the URLs of the staged items; and a URL
\* skipped that way is not in seen_urls unless an entry with that URL was
\* staged, so the membership test of a later cycle lets it pass.
C20_SkipLeavesNoTrace ==
  [][/\ kpc = "translate" /\ entry'.fate = "untranslated" =>
          /\ new_articles' = new_articles
          /\ seen_urls' = seen_urls
          /\ pending_articles' = pending_articles
          /\ IF left > 1
               THEN kpc' = "scan" /\ src' = src /\ left' = left - 1
               ELSE IF src < NumSources
                      THEN kpc' = "parse" /\ src' = src + 1
                      ELSE kpc' = "commit"
     /\ seen_urls' # seen_urls => kpc = "mark" /\ seen_urls' = seen_urls \cup UrlsOf(new_articles)
     /\ kpc = "mark" /\ kpc' # "mark" => seen_urls' = seen_urls \cup UrlsOf(new_articles)
     /\ skipped' # NoSkip /\ ~skipped'.restaged => skipped'.url \notin seen_urls']_vars

\* An entry skipped for an empty translation has been staged by a later cycle.
C20_Witness ==
  /\ skipped.restaged
  /\ skipped.earlier
  /\ entry.fate = "staged"
  /\ skipped.url = urldefrag(entry.link)

\* C17: seen_urls only grows, it changes only in a fetch cycle's commit, and
\* no step of a publish thread and no launch of one changes it.
C17_AppendOnly ==
  [][/\ seen_urls \subseteq seen_urls'
     /\ seen_urls' # seen_urls => kpc = "mark" /\ kpc' = "sleep"
     /\ senders' # senders => seen_urls' = seen_urls]_vars

\* A second commit has added a URL to a set that held one, and items have
\* been published.
C17_Witness ==
  /\ Cardinality(seen_urls) >= 2
  /\ sent_urls # {}
  /\ kpc = "sleep"

\* C18: under fair scheduling fetch cycles and publish cycles are launched
\* again and again, whatever fails in them: sources that raise or give no
\* entries, translations that come back empty, sends that raise.
C18_KeepLaunching ==
  /\ []<><<keep_alive_call>>_vars
  /\ []<><<StartSender>>_vars

\* After an item could not be published, a fetch cycle has been launched and
\* a publish thread has been started.
C18_Witness ==
  /\ failed # {}
  /\ kpc = "parse"
  /\ src = 1
  /\ \E r \in Live : r.pc = "start"

\* the step that launches a fetch cycle: the thread enters the loop over
\* SOURCES at its first source
CycleStarts == kpc' = "parse" /\ src' = 1 /\ ~(kpc = "parse" /\ src = 1)

\* the positions of the keep-alive thread inside fetch_articles_for_window
InCycle == {"parse", "scan", "check", "translate", "commit", "mark"}

\* C19: a fetch cycle is launched only by keep_alive_activity at its call,
\* which it reaches only from its sleep, which it reaches only when the
\* previous cycle has returned: no cycle is executing then. So seen_urls does
\* not change between a cycle's membership tests and its commit, and no URL a
\* cycle has staged is a URL an earlier cycle staged and marked seen.
C19_OneCycle ==
  [][/\ CycleStarts => kpc = "call" /\ new_articles = <<>> /\ lock # FetchThread
     /\ kpc' = "call" /\ kpc # "call" => kpc = "sleep"
     /\ kpc' = "sleep" /\ kpc # "sleep" => kpc = "mark"
     /\ kpc \in InCycle \ {"mark"} => seen_urls' = seen_urls
     /\ UrlsOf(new_articles') \cap seen_urls' = {}]_vars

\* A later cycle is between its membership tests and its commit with a staged
\* item, while seen_urls holds what an earlier cycle committed.
C19_Witness ==
  /\ kpc = "commit"
  /\ new_articles # <<>>
  /\ seen_urls # {}
  /\ seen_start = seen_urls

====
